---- MODULE Spec2Model ----
(***************************************************************************)
(* The banking service's ledger: TransactionService.ProcessDeposit and     *)
(* ProcessWithdrawal running as concurrent requests against the accounts   *)
(* and transactions tables (PostgreSQL).                                   *)
(*                                                                         *)
(* Every request is a process that walks through the database statements   *)
(* of its handler one statement at a time; the Go code between two         *)
(* statements is local and belongs to the step of the statement it         *)
(* follows, except the construction of the models.Transaction (uuid.New,   *)
(* time.Now), which is a step of its own because it reads the clock.       *)
(* No statement runs inside a database transaction, so each statement is   *)
(* one atomic step and any other request may run between two of them.      *)
(*                                                                         *)
(* Amounts and balances are counted in minor units (0.01), the values      *)
(* DECIMAL(15,2) stores exactly.                                           *)
(***************************************************************************)
EXTENDS Integers, FiniteSets, Sequences, TLC

\* ---------------------------------------------------------------- bounds
NumProcs == 2       \* request goroutines that may be in flight together
MaxOps == 3         \* requests started in one behaviour
MaxAmount == 2      \* largest amount of a request
MaxTime == 1        \* largest clock value
MaxFaults == 1      \* injected storage failures in one behaviour
MaxLimit == 2       \* largest explicit limit query parameter
MaxOffset == 1      \* largest offset query parameter
MaxTokens == 2      \* access tokens signed in one behaviour
MaxTicks == 1       \* steps of the wall clock in one behaviour
MaxProtected == 2   \* requests through AuthMiddleware in one behaviour
NumAuthProcs == 1   \* goroutines serving the protected routes
MaxRecords == 3     \* records of a transaction log a pager reads
MaxPageSize == 2    \* largest page size of a pager

Procs == 1..NumProcs
AuthProcs == 1..NumAuthProcs
Users == {"u1", "u2"}
Amounts == (-1)..MaxAmount
Descriptions == {"memo"}

\* limit := 50 when the parameter is absent, not a number or <= 0
DefaultLimit == 50
\* offset := 0 when the parameter is absent, not a number or < 0
DefaultOffset == 0

\* The limit and offset query parameters as strconv.Atoi reads them; an absent
\* parameter is c.DefaultQuery's "50" and "0".
LimitParams == ((-1)..MaxLimit) \cup {DefaultLimit}
OffsetParams == ((-1)..MaxOffset) \cup {DefaultOffset}

\* ------------------------------------------------------------ program text
TransactionTypeDeposit == "deposit"
TransactionTypeWithdrawal == "withdrawal"

ErrDepositAmount == "deposit amount must be greater than zero"
ErrWithdrawalAmount == "withdrawal amount must be greater than zero"
ErrGetOrCreate == "failed to get or create account"
ErrGetAccount == "failed to get account"
ErrInsufficientFunds == "insufficient funds"
ErrSaveTransaction == "failed to save transaction"
ErrUpdateBalance == "failed to update account balance"

ErrGetTransaction == "failed to get transaction"
ErrGetTransactions == "failed to get transactions"

OpGetBalance == "GET /account/balance"
OpGetTransactions == "GET /account/transactions"
OpGetTransaction == "GET /transactions/:id"

\* the innermost cause an error wraps
CauseTransactionNoRows == "transaction not found"
CauseNone == "none"
CauseNoRows == "account not found for user"
CauseUniqueViolation == "unique violation accounts.user_id"
CauseNoRowsAffected == "account not found for balance update"
CauseStorage == "storage failure"

VARIABLES
    accounts,       \* rows of table accounts
    transactions,   \* rows of table transactions
    now,            \* the wall clock time.Now() reads
    nextUUID,       \* the next value uuid.New() returns
    pc,             \* per request: the statement it executes next
    req,            \* per request: operation, userID, amount, description
    account,        \* per request: local variable account
    transaction,    \* per request: local variable transaction
    result,         \* per request: the (transaction, error) pair it returns
    started,        \* requests started so far
    faults,         \* storage failures injected so far
    concurrent,     \* history: some request started while another was in flight
    accepted,       \* history: the transactions returned without error
    users,          \* client service: rows of table users
    refreshTokens,  \* client service: rows of table refresh_tokens
    tokens,         \* the access tokens generateAccessToken has signed
    clock,          \* minutes of wall clock the token checks read
    authCall,       \* client service: the LoginUser or RefreshToken call in flight
    user,           \* the models.User a test case of TestUser_IsValid holds
    valid,          \* the values IsValid has returned for it, <<>> before the call
    pager           \* a client that reads a transaction history page by page

\* the ledger service's state
ledgerVars == <<accounts, transactions, now, nextUUID, pc, req, account,
                transaction, result, started, faults, concurrent, accepted>>

\* the client service's state and the tokens it has handed out
authVars == <<users, refreshTokens, tokens, clock, authCall>>

\* what no statement of the ledger service touches
otherVars == <<authVars, user, valid, pager>>

vars == <<accounts, transactions, now, nextUUID, pc, req, account, transaction,
          result, started, faults, concurrent, accepted, users, refreshTokens,
          tokens, clock, authCall, user, valid, pager>>

NoAccount ==
    [id |-> 0, user_id |-> "", balance |-> 0, created_at |-> 0, updated_at |-> 0]

NoTransaction ==
    [id |-> 0, account_id |-> 0, user_id |-> "", type |-> "", amount |-> 0,
     balance_before |-> 0, balance_after |-> 0, description |-> "", created_at |-> 0]

NoRequest == [op |-> "", userID |-> "", amount |-> 0, description |-> ""]

NoResult ==
    [ok |-> FALSE, err |-> "", cause |-> CauseNone, transaction |-> NoTransaction,
     requested |-> 0, available |-> 0]

Success(t) == [NoResult EXCEPT !.ok = TRUE, !.transaction = t]

\* an error branch that returns nil for the error
FailureAsSuccess(msg, cause) == [NoResult EXCEPT !.ok = TRUE]

Failure(msg, cause) == [NoResult EXCEPT !.err = msg, !.cause = cause]

InsufficientFundsError(amount, balance) ==
    [NoResult EXCEPT !.err = ErrInsufficientFunds, !.requested = amount,
                     !.available = balance]

\* ------------------------------------------------------------- the clock
\* time.Now(): the clock never runs backwards; two reads may see the same value.
TimeNow == {t \in {now, now + 1} : t <= MaxTime}

\* ------------------------------------------------------- table accounts
\* the accounts table without its UNIQUE constraint
UserIDNotUnique(rows, userID) == TRUE

\* user_id UUID UNIQUE NOT NULL
UserIDUnique(rows, userID) == \A a \in rows : a.user_id # userID

AccountExists(userID) == \E a \in accounts : a.user_id = userID

AccountRow(userID) == CHOOSE a \in accounts : a.user_id = userID

\* UPDATE accounts SET balance = $1, updated_at = $2 WHERE id = $3
\* an UPDATE without its WHERE clause
UpdatedRowsAll(accountID, newBalance, t) ==
    {[a EXCEPT !.balance = newBalance, !.updated_at = t] : a \in accounts}

UpdatedRows(accountID, newBalance, t) ==
    {IF a.id = accountID
        THEN [a EXCEPT !.balance = newBalance, !.updated_at = t]
        ELSE a : a \in accounts}

RowsAffected(accountID) == Cardinality({a \in accounts : a.id = accountID})

\* ------------------------------------------------- TransactionService
\* an amount check that lets zero through
InvalidAmountNegativeOnly(amount) == amount < 0

\* if amount <= 0
InvalidAmount(amount) == amount <= 0

\* a funds check that lets every withdrawal through
InsufficientFundsNever(balance, amount) == FALSE

\* a funds check that is off by one minor unit
InsufficientFundsOffByOne(balance, amount) == balance + 1 < amount

\* a check that also rejects the withdrawal of the whole balance
InsufficientFundsAtBalance(balance, amount) == balance <= amount

\* if account.Balance < amount
InsufficientFunds(balance, amount) == balance < amount

\* a deposit that debits
BalanceAfterDebit(type, balanceBefore, amount) == balanceBefore - amount

\* balanceAfter := balanceBefore + amount, balanceAfter := balanceBefore - amount

BalanceAfter(type, balanceBefore, amount) ==
    IF type = TransactionTypeDeposit
        THEN balanceBefore + amount
        ELSE balanceBefore - amount

\* a transaction whose BalanceBefore is filled with balanceAfter
NewTransactionBeforeIsAfter(id, acct, r, t) ==
    [id |-> id, account_id |-> acct.id, user_id |-> r.userID, type |-> r.op,
     amount |-> r.amount,
     balance_before |-> BalanceAfter(r.op, acct.balance, r.amount),
     balance_after |-> BalanceAfter(r.op, acct.balance, r.amount),
     description |-> r.description, created_at |-> t]

NewTransaction(id, acct, r, t) ==
    [id |-> id, account_id |-> acct.id, user_id |-> r.userID, type |-> r.op,
     amount |-> r.amount, balance_before |-> acct.balance,
     balance_after |-> BalanceAfter(r.op, acct.balance, r.amount),
     description |-> r.description, created_at |-> t]

\* ------------------------------------------------ the client service's data
\* uuid.Nil
UUIDNil == "00000000-0000-0000-0000-000000000000"

Emails == [u1 |-> "ann@example.com", u2 |-> "bob@example.com"]
Names == {"Ann", "Bob", "Eve"}

\* models.User, without password_hash and the timestamps
User(id, email, name, isBlacklisted, isAdmin) ==
    [id |-> id, email |-> email, name |-> name, is_blacklisted |-> isBlacklisted,
     is_admin |-> isAdmin]

NoUser == User(UUIDNil, "", "", FALSE, FALSE)

\* The models.User values of the test cases: every combination of the fields.
TestUsers ==
    {User(id, Emails[u], name, isBlacklisted, isAdmin) :
        id \in Users \cup {UUIDNil}, u \in Users, name \in Names,
        isBlacklisted \in BOOLEAN, isAdmin \in BOOLEAN}

\* Table users after RegisterUser of both users: IsBlacklisted false, IsAdmin false.
RegisteredUsers ==
    [u \in Users |-> User(u, Emails[u], IF u = "u1" THEN "Ann" ELSE "Bob", FALSE, FALSE)]

\* "exp": time.Now().Add(15 * time.Minute)
AccessTokenMinutes == 15
\* ExpiresAt: time.Now().Add(7 * 24 * time.Hour)
RefreshTokenMinutes == 7 * 24 * 60

\* The call of the client service in flight: its method, where it stands, the
\* user row it has read, whether the password matches, and the error of the
\* call before it.
NoAuthCall == [op |-> "", pc |-> "idle", user |-> NoUser, password |-> FALSE, err |-> ""]

NoPager == [userID |-> "", limit |-> 0, offset |-> 0, rows |-> <<>>, done |-> TRUE]

\* The ledger service after start, with empty tables.
InitLedger ==
    /\ accounts = {}
    /\ transactions = {}
    /\ now = 0
    /\ nextUUID = 1
    /\ pc = [p \in Procs |-> "idle"]
    /\ req = [p \in Procs |-> NoRequest]
    /\ account = [p \in Procs |-> NoAccount]
    /\ transaction = [p \in Procs |-> NoTransaction]
    /\ result = [p \in Procs |-> NoResult]
    /\ started = 0
    /\ faults = 0
    /\ concurrent = FALSE
    /\ accepted = {}

\* The client service with both users registered and nobody logged in.
InitClient ==
    /\ users = RegisteredUsers
    /\ refreshTokens = {}
    /\ tokens = {}
    /\ clock = 0
    /\ authCall = NoAuthCall

Init ==
    /\ InitLedger
    /\ InitClient
    /\ user = NoUser
    /\ valid = <<>>
    /\ pager = NoPager

\* A request calls ProcessDeposit(userID, amount, description): the amount check.
ProcessDeposit(p) ==
    /\ pc[p] = "idle"
    /\ started < MaxOps
    /\ started' = started + 1
    /\ concurrent' = (concurrent \/ \E q \in Procs \ {p} : pc[q] # "idle")
    /\ \E u \in Users, a \in Amounts, d \in Descriptions :
        /\ req' = [req EXCEPT ![p] = [op |-> TransactionTypeDeposit, userID |-> u,
                                      amount |-> a, description |-> d]]
        /\ IF InvalidAmount(a)
              THEN /\ pc' = [pc EXCEPT ![p] = "return"]
                   /\ result' = [result EXCEPT ![p] =
                                    Failure(ErrDepositAmount, CauseNone)]
              ELSE /\ pc' = [pc EXCEPT ![p] = "AccountExists"]
                   /\ UNCHANGED result
    /\ UNCHANGED <<accounts, transactions, now, nextUUID, account, transaction,
                   faults, accepted>>
    /\ UNCHANGED otherVars

\* A request calls ProcessWithdrawal(userID, amount, description): the amount check.
ProcessWithdrawal(p) ==
    /\ pc[p] = "idle"
    /\ started < MaxOps
    /\ started' = started + 1
    /\ concurrent' = (concurrent \/ \E q \in Procs \ {p} : pc[q] # "idle")
    /\ \E u \in Users, a \in Amounts, d \in Descriptions :
        /\ req' = [req EXCEPT ![p] = [op |-> TransactionTypeWithdrawal, userID |-> u,
                                      amount |-> a, description |-> d]]
        /\ IF InvalidAmount(a)
              THEN /\ pc' = [pc EXCEPT ![p] = "return"]
                   /\ result' = [result EXCEPT ![p] =
                                    Failure(ErrWithdrawalAmount, CauseNone)]
              ELSE /\ pc' = [pc EXCEPT ![p] = "GetAccountByUserID"]
                   /\ UNCHANGED result
    /\ UNCHANGED <<accounts, transactions, now, nextUUID, account, transaction,
                   faults, accepted>>
    /\ UNCHANGED otherVars

\* GetOrCreateAccount: SELECT EXISTS(SELECT 1 FROM accounts WHERE user_id = $1)
GetOrCreateAccountExists(p) ==
    /\ pc[p] = "AccountExists"
    /\ pc' = [pc EXCEPT ![p] =
                 IF AccountExists(req[p].userID)
                    THEN "GetAccountByUserID" ELSE "CreateAccount"]
    /\ UNCHANGED <<accounts, transactions, now, nextUUID, req, account, transaction,
                   result, started, faults, concurrent, accepted>>
    /\ UNCHANGED otherVars

\* GetOrCreateAccount: the account exists, SELECT ... FROM accounts WHERE user_id = $1
GetOrCreateAccountGet(p) ==
    /\ pc[p] = "GetAccountByUserID"
    /\ req[p].op = TransactionTypeDeposit
    /\ IF AccountExists(req[p].userID)
          THEN /\ account' = [account EXCEPT ![p] = AccountRow(req[p].userID)]
               /\ pc' = [pc EXCEPT ![p] = "NewTransaction"]
               /\ UNCHANGED result
          ELSE /\ pc' = [pc EXCEPT ![p] = "return"]
               /\ result' = [result EXCEPT ![p] = Failure(ErrGetOrCreate, CauseNoRows)]
               /\ UNCHANGED account
    /\ UNCHANGED <<accounts, transactions, now, nextUUID, req, transaction, started,
                   faults, concurrent, accepted>>
    /\ UNCHANGED otherVars

\* GetOrCreateAccount: no account was seen, CreateAccount's INSERT INTO accounts.
\* The UNIQUE constraint on user_id rejects a second row of the same user, and
\* GetOrCreateAccount hands that error on.
GetOrCreateAccountCreate(p) ==
    /\ pc[p] = "CreateAccount"
    /\ \E t \in TimeNow :
        LET row == [id |-> nextUUID, user_id |-> req[p].userID, balance |-> 0,
                    created_at |-> t, updated_at |-> t]
        IN  /\ now' = t
            /\ nextUUID' = nextUUID + 1
            /\ IF UserIDUnique(accounts, req[p].userID)
                  THEN /\ accounts' = accounts \cup {row}
                       /\ account' = [account EXCEPT ![p] = row]
                       /\ pc' = [pc EXCEPT ![p] = "NewTransaction"]
                       /\ UNCHANGED result
                  ELSE /\ pc' = [pc EXCEPT ![p] = "return"]
                       /\ result' = [result EXCEPT ![p] =
                                        Failure(ErrGetOrCreate, CauseUniqueViolation)]
                       /\ UNCHANGED <<accounts, account>>
    /\ UNCHANGED <<transactions, req, transaction, started, faults, concurrent,
                   accepted>>
    /\ UNCHANGED otherVars

\* a withdrawal that goes on to create the account it did not find
WithdrawalGetOrCreateAccount(p) ==
    /\ pc[p] = "GetAccountByUserID"
    /\ req[p].op = TransactionTypeWithdrawal
    /\ ~AccountExists(req[p].userID)
    /\ pc' = [pc EXCEPT ![p] = "CreateAccount"]
    /\ UNCHANGED <<accounts, transactions, now, nextUUID, req, account, transaction,
                   result, started, faults, concurrent, accepted>>
    /\ UNCHANGED otherVars

\* ProcessWithdrawal: GetAccountByUserID, then the funds check.
WithdrawalGetAccount(p) ==
    /\ pc[p] = "GetAccountByUserID"
    /\ req[p].op = TransactionTypeWithdrawal
    /\ IF ~AccountExists(req[p].userID)
          THEN /\ pc' = [pc EXCEPT ![p] = "return"]
               /\ result' = [result EXCEPT ![p] = Failure(ErrGetAccount, CauseNoRows)]
               /\ UNCHANGED account
          ELSE LET row == AccountRow(req[p].userID)
               IN  IF InsufficientFunds(row.balance, req[p].amount)
                      THEN /\ pc' = [pc EXCEPT ![p] = "return"]
                           /\ result' = [result EXCEPT ![p] =
                                 InsufficientFundsError(req[p].amount, row.balance)]
                           /\ UNCHANGED account
                      ELSE /\ account' = [account EXCEPT ![p] = row]
                           /\ pc' = [pc EXCEPT ![p] = "NewTransaction"]
                           /\ UNCHANGED result
    /\ UNCHANGED <<accounts, transactions, now, nextUUID, req, transaction, started,
                   faults, concurrent, accepted>>
    /\ UNCHANGED otherVars

\* balanceBefore, balanceAfter and transaction := &models.Transaction{...}
BuildTransaction(p) ==
    /\ pc[p] = "NewTransaction"
    /\ \E t \in TimeNow :
        /\ now' = t
        /\ transaction' = [transaction EXCEPT ![p] =
                              NewTransaction(nextUUID, account[p], req[p], t)]
    /\ nextUUID' = nextUUID + 1
    /\ pc' = [pc EXCEPT ![p] = "CreateTransaction"]
    /\ UNCHANGED <<accounts, transactions, req, account, result, started, faults,
                   concurrent, accepted>>
    /\ UNCHANGED otherVars

\* an insert that replaces the account's earlier records
CreateTransactionReplacing(p) ==
    /\ pc[p] = "CreateTransaction"
    /\ transactions' = {t \in transactions : t.account_id # transaction[p].account_id}
                           \cup {transaction[p]}
    /\ pc' = [pc EXCEPT ![p] = "UpdateBalance"]
    /\ UNCHANGED <<accounts, now, nextUUID, req, account, transaction, result,
                   started, faults, concurrent, accepted>>
    /\ UNCHANGED otherVars

\* transactionRepo.CreateTransaction: INSERT INTO transactions
CreateTransaction(p) ==
    /\ pc[p] = "CreateTransaction"
    /\ transactions' = transactions \cup {transaction[p]}
    /\ pc' = [pc EXCEPT ![p] = "UpdateBalance"]
    /\ UNCHANGED <<accounts, now, nextUUID, req, account, transaction, result,
                   started, faults, concurrent, accepted>>
    /\ UNCHANGED otherVars

\* accountRepo.UpdateBalance(account.ID, balanceAfter), then return transaction, nil
UpdateBalance(p) ==
    /\ pc[p] = "UpdateBalance"
    /\ \E t \in TimeNow :
        /\ now' = t
        /\ accounts' = UpdatedRows(account[p].id, transaction[p].balance_after, t)
    /\ result' = [result EXCEPT ![p] =
                     IF RowsAffected(account[p].id) = 0
                        THEN Failure(ErrUpdateBalance, CauseNoRowsAffected)
                        ELSE Success(transaction[p])]
    /\ pc' = [pc EXCEPT ![p] = "return"]
    /\ UNCHANGED <<transactions, nextUUID, req, account, transaction, started,
                   faults, concurrent, accepted>>
    /\ UNCHANGED otherVars

\* What the service returns when the statement at pc fails in the database.
StorageError(at, op) ==
    CASE at = "AccountExists" -> ErrGetOrCreate
      [] at = "CreateAccount" -> ErrGetOrCreate
      [] at = "GetAccountByUserID" ->
            IF op = TransactionTypeDeposit THEN ErrGetOrCreate ELSE ErrGetAccount
      [] at = "CreateTransaction" -> ErrSaveTransaction
      [] OTHER -> ErrUpdateBalance

\* A statement fails in the database (connection lost, timeout, ...): nothing is
\* written and the error is wrapped and returned.
StorageFailure(p) ==
    /\ pc[p] \in {"AccountExists", "CreateAccount", "GetAccountByUserID",
                  "CreateTransaction", "UpdateBalance"}
    /\ faults < MaxFaults
    /\ faults' = faults + 1
    /\ result' = [result EXCEPT ![p] =
                     Failure(StorageError(pc[p], req[p].op), CauseStorage)]
    /\ pc' = [pc EXCEPT ![p] = "return"]
    /\ UNCHANGED <<accounts, transactions, now, nextUUID, req, account, transaction,
                   started, concurrent, accepted>>
    /\ UNCHANGED otherVars

\* The service call returns to the handler and the goroutine serves the next request.
Return(p) ==
    /\ pc[p] = "return"
    /\ accepted' = IF result[p].ok THEN accepted \cup {result[p].transaction}
                                   ELSE accepted
    /\ pc' = [pc EXCEPT ![p] = "idle"]
    /\ req' = [req EXCEPT ![p] = NoRequest]
    /\ account' = [account EXCEPT ![p] = NoAccount]
    /\ transaction' = [transaction EXCEPT ![p] = NoTransaction]
    /\ result' = [result EXCEPT ![p] = NoResult]
    /\ UNCHANGED <<accounts, transactions, now, nextUUID, started, faults, concurrent>>
    /\ UNCHANGED otherVars

\* ------------------------------------------------------- the HTTP handlers
\* a binding without the gt=0 tag
BindingFailsNever(amount) == FALSE

\* binding:"required,gt=0" of TransactionRequest.Amount
BindingFails(amount) == amount <= 0

\* err.Error() of a service error, by its parts
ErrorText(res) == <<res.err, res.cause, res.requested, res.available>>

\* "insufficient funds: requested "+Sprintf("%f", amount)+", available "+Sprintf("%f", 0.0)
InsufficientFundsText(amount) == <<ErrInsufficientFunds, CauseNone, amount, 0>>

ValidationErrorResponse ==
    [status |-> 400, code |-> "VALIDATION_ERROR", transaction |-> NoTransaction,
     details |-> {}]

\* TransactionHandler.Deposit after the service call
DepositResponse(res) ==
    IF res.ok
       THEN [status |-> 201, code |-> "", transaction |-> res.transaction,
             details |-> {}]
       ELSE [status |-> 500, code |-> "DEPOSIT_FAILED", transaction |-> NoTransaction,
             details |-> {<<"details", ErrorText(res)>>}]

\* TransactionHandler.Withdraw after the service call
WithdrawResponse(r, res) ==
    IF res.ok
       THEN [status |-> 201, code |-> "", transaction |-> res.transaction,
             details |-> {}]
       ELSE IF ErrorText(res) = InsufficientFundsText(r.amount)
               THEN [status |-> 400, code |-> "INSUFFICIENT_FUNDS",
                     transaction |-> NoTransaction,
                     details |-> {<<"requested_amount", r.amount>>}]
               ELSE [status |-> 500, code |-> "WITHDRAWAL_FAILED",
                     transaction |-> NoTransaction,
                     details |-> {<<"details", ErrorText(res)>>}]

\* POST /transactions/deposit: ShouldBindJSON, then ProcessDeposit.
Deposit(p) ==
    /\ pc[p] = "idle"
    /\ started < MaxOps
    /\ started' = started + 1
    /\ concurrent' = (concurrent \/ \E q \in Procs \ {p} : pc[q] # "idle")
    /\ \E u \in Users, a \in Amounts, d \in Descriptions :
        /\ req' = [req EXCEPT ![p] = [op |-> TransactionTypeDeposit, userID |-> u,
                                      amount |-> a, description |-> d]]
        /\ pc' = [pc EXCEPT ![p] = IF BindingFails(a) THEN "respond"
                                   ELSE IF InvalidAmount(a) THEN "return"
                                   ELSE "AccountExists"]
        /\ result' = [result EXCEPT ![p] =
                         IF ~BindingFails(a) /\ InvalidAmount(a)
                            THEN Failure(ErrDepositAmount, CauseNone)
                            ELSE NoResult]
    /\ UNCHANGED <<accounts, transactions, now, nextUUID, account, transaction,
                   faults, accepted>>
    /\ UNCHANGED otherVars

\* POST /transactions/withdraw: ShouldBindJSON, then ProcessWithdrawal.
Withdraw(p) ==
    /\ pc[p] = "idle"
    /\ started < MaxOps
    /\ started' = started + 1
    /\ concurrent' = (concurrent \/ \E q \in Procs \ {p} : pc[q] # "idle")
    /\ \E u \in Users, a \in Amounts, d \in Descriptions :
        /\ req' = [req EXCEPT ![p] = [op |-> TransactionTypeWithdrawal, userID |-> u,
                                      amount |-> a, description |-> d]]
        /\ pc' = [pc EXCEPT ![p] = IF BindingFails(a) THEN "respond"
                                   ELSE IF InvalidAmount(a) THEN "return"
                                   ELSE "GetAccountByUserID"]
        /\ result' = [result EXCEPT ![p] =
                         IF ~BindingFails(a) /\ InvalidAmount(a)
                            THEN Failure(ErrWithdrawalAmount, CauseNone)
                            ELSE NoResult]
    /\ UNCHANGED <<accounts, transactions, now, nextUUID, account, transaction,
                   faults, accepted>>
    /\ UNCHANGED otherVars

\* A handler that never reached ProcessDeposit or ProcessWithdrawal has written
\* its response; the goroutine serves the next request.
Respond(p) ==
    /\ pc[p] = "respond"
    /\ pc' = [pc EXCEPT ![p] = "idle"]
    /\ req' = [req EXCEPT ![p] = NoRequest]
    /\ result' = [result EXCEPT ![p] = NoResult]
    /\ UNCHANGED <<accounts, transactions, now, nextUUID, account, transaction,
                   started, faults, concurrent, accepted>>
    /\ UNCHANGED otherVars

\* ------------------------------------------------------------ the queries
Query(op, userID, id, limit, offset) ==
    [op |-> op, userID |-> userID, amount |-> 0, description |-> "", id |-> id,
     limit |-> limit, offset |-> offset]

\* What a query of the services returns: (value, error)
QueryResult(ok, err, cause, t, balance, rows) ==
    [ok |-> ok, err |-> err, cause |-> cause, transaction |-> t, requested |-> 0,
     available |-> 0, balance |-> balance, rows |-> rows]

\* a balance read that answers 0 for a user without an account
GetAccountBalanceOrZero(userID) ==
    QueryResult(TRUE, "", CauseNone, NoTransaction,
                IF AccountExists(userID) THEN AccountRow(userID).balance ELSE 0, <<>>)

\* AccountService.GetAccountBalance
GetAccountBalance(userID) ==
    IF AccountExists(userID)
       THEN QueryResult(TRUE, "", CauseNone, NoTransaction,
                        AccountRow(userID).balance, <<>>)
       ELSE QueryResult(FALSE, ErrGetAccount, CauseNoRows, NoTransaction, 0, <<>>)

\* AccountHandler.GetBalance after the service call
GetBalanceResponse(res) ==
    IF res.ok
       THEN [status |-> 200, code |-> "", balance |-> res.balance,
             currency |-> "USD"]
       ELSE [status |-> 404, code |-> "ACCOUNT_NOT_FOUND", balance |-> 0,
             currency |-> ""]

\* TransactionService.GetTransactionByID: SELECT ... FROM transactions WHERE id = $1
GetTransactionByID(id) ==
    IF \E t \in transactions : t.id = id
       THEN QueryResult(TRUE, "", CauseNone,
                        CHOOSE t \in transactions : t.id = id, 0, <<>>)
       ELSE QueryResult(FALSE, ErrGetTransaction, CauseTransactionNoRows,
                        NoTransaction, 0, <<>>)

\* a handler without the ownership check
GetTransactionResponseUnchecked(userID, res) ==
    IF ~res.ok
       THEN [status |-> 404, code |-> "TRANSACTION_NOT_FOUND",
             transaction |-> NoTransaction]
       ELSE [status |-> 200, code |-> "", transaction |-> res.transaction]

\* TransactionHandler.GetTransaction after the service call: the ownership check
GetTransactionResponse(userID, res) ==
    IF ~res.ok
       THEN [status |-> 404, code |-> "TRANSACTION_NOT_FOUND",
             transaction |-> NoTransaction]
       ELSE IF res.transaction.user_id # userID
               THEN [status |-> 403, code |-> "ACCESS_DENIED",
                     transaction |-> NoTransaction]
               ELSE [status |-> 200, code |-> "", transaction |-> res.transaction]

\* a limit passed to the query as it came
EffectiveLimitAsGiven(limit) == limit

\* if limit <= 0 { limit = 50 }, in the handler and again in the service
EffectiveLimit(limit) == IF limit <= 0 THEN DefaultLimit ELSE limit

\* if offset < 0 { offset = 0 }, in the handler and again in the service
EffectiveOffset(offset) == IF offset < 0 THEN DefaultOffset ELSE offset

\* ORDER BY created_at DESC: the orders the database may return the rows S in
\* (rows of equal created_at come in any order).
OrderByCreatedAtDesc(S) ==
    LET n == Cardinality(S)
    IN  {f \in [1..n -> S] :
            /\ \A i, j \in 1..n : i # j => f[i] # f[j]
            /\ \A i \in 1..n : i < n => f[i].created_at >= f[i + 1].created_at}

\* LIMIT $2 OFFSET $3
LimitOffset(rows, limit, offset) ==
    SubSeq(rows, offset + 1,
           IF offset + limit < Len(rows) THEN offset + limit ELSE Len(rows))

\* TransactionRepositoryImpl.GetTransactionsByUserID: the pages the query may return
GetTransactionsByUserID(userID, limit, offset) ==
    LET S == {t \in transactions : t.user_id = userID}
    IN  {LimitOffset(rows, limit, offset) : rows \in OrderByCreatedAtDesc(S)}

\* AccountHandler.GetTransactions after the service call
GetTransactionsResponse(r, res) ==
    IF res.ok
       THEN [status |-> 200, code |-> "", transactions |-> res.rows,
             limit |-> EffectiveLimit(r.limit), offset |-> EffectiveOffset(r.offset),
             count |-> Len(res.rows)]
       ELSE [status |-> 500, code |-> "FETCH_TRANSACTIONS_FAILED",
             transactions |-> <<>>, limit |-> 0, offset |-> 0, count |-> 0]

\* A query's only statement fails in the database.
QueryFailure(msg) == QueryResult(FALSE, msg, CauseStorage, NoTransaction, 0, <<>>)

\* Start of a query handler: one request, one SELECT, no write.
StartQuery(p, r, res) ==
    /\ pc[p] = "idle"
    /\ started < MaxOps
    /\ started' = started + 1
    /\ concurrent' = (concurrent \/ \E q \in Procs \ {p} : pc[q] # "idle")
    /\ req' = [req EXCEPT ![p] = r]
    /\ result' = [result EXCEPT ![p] = res]
    /\ pc' = [pc EXCEPT ![p] = "respond"]
    /\ UNCHANGED <<accounts, transactions, now, nextUUID, account, transaction,
                   accepted>>
    /\ UNCHANGED otherVars

\* GET /account/balance
GetBalance(p) ==
    \E u \in Users :
        \/ /\ StartQuery(p, Query(OpGetBalance, u, 0, 0, 0), GetAccountBalance(u))
           /\ UNCHANGED faults
        \/ /\ faults < MaxFaults
           /\ faults' = faults + 1
           /\ StartQuery(p, Query(OpGetBalance, u, 0, 0, 0),
                         QueryFailure(ErrGetAccount))

\* GET /account/transactions?limit=&offset=
GetTransactions(p) ==
    /\ pc[p] = "idle"
    /\ started < MaxOps
    /\ \E u \in Users, limit \in LimitParams, offset \in OffsetParams :
        \/ /\ \E rows \in GetTransactionsByUserID(
                             u, EffectiveLimit(limit), EffectiveOffset(offset)) :
                 StartQuery(p, Query(OpGetTransactions, u, 0, limit, offset),
                            QueryResult(TRUE, "", CauseNone, NoTransaction, 0, rows))
           /\ UNCHANGED faults
        \/ /\ faults < MaxFaults
           /\ faults' = faults + 1
           /\ StartQuery(p, Query(OpGetTransactions, u, 0, limit, offset),
                         QueryFailure(ErrGetTransactions))

\* GET /transactions/:id
GetTransaction(p) ==
    \E u \in Users, id \in 1..nextUUID :
        \/ /\ StartQuery(p, Query(OpGetTransaction, u, id, 0, 0),
                         GetTransactionByID(id))
           /\ UNCHANGED faults
        \/ /\ faults < MaxFaults
           /\ faults' = faults + 1
           /\ StartQuery(p, Query(OpGetTransaction, u, id, 0, 0),
                         QueryFailure(ErrGetTransaction))

Next ==
    \E p \in Procs :
        \/ ProcessDeposit(p)
        \/ ProcessWithdrawal(p)
        \/ GetOrCreateAccountExists(p)
        \/ GetOrCreateAccountGet(p)
        \/ GetOrCreateAccountCreate(p)
        \/ WithdrawalGetAccount(p)
        \/ BuildTransaction(p)
        \/ CreateTransaction(p)
        \/ UpdateBalance(p)
        \/ StorageFailure(p)
        \/ Return(p)

Spec == Init /\ [][Next]_vars

\* The service behind its HTTP handlers.
NextAPI ==
    \E p \in Procs :
        \/ Deposit(p)
        \/ Withdraw(p)
        \/ GetBalance(p)
        \/ GetTransactions(p)
        \/ GetTransaction(p)
        \/ Respond(p)
        \/ GetOrCreateAccountExists(p)
        \/ GetOrCreateAccountGet(p)
        \/ GetOrCreateAccountCreate(p)
        \/ WithdrawalGetAccount(p)
        \/ BuildTransaction(p)
        \/ CreateTransaction(p)
        \/ UpdateBalance(p)
        \/ StorageFailure(p)
        \/ Return(p)

SpecAPI == Init /\ [][NextAPI]_vars

\* ------------------------------------------------- models.User.IsValid
\* a check that forgets the nil id
IsValidIgnoresID(u) == ~u.is_blacklisted

\* return !u.IsBlacklisted && u.ID != uuid.Nil
IsValid(u) == ~u.is_blacklisted /\ u.id # UUIDNil

\* A test case holds one models.User.
InitUser ==
    /\ InitLedger
    /\ InitClient
    /\ user \in TestUsers
    /\ valid = <<>>
    /\ pager = NoPager

\* result := tt.user.IsValid()
TestUser_IsValid ==
    /\ valid = <<>>
    /\ valid' = <<IsValid(user)>>
    /\ UNCHANGED <<ledgerVars, authVars, user, pager>>

NextUser == TestUser_IsValid

SpecUser == InitUser /\ [][NextUser]_vars

\* ------------------------------------------ the client service: tokens
ErrInvalidCredentials == "invalid credentials"
ErrSuspended == "account has been suspended"
ErrInvalidRefreshToken == "invalid refresh token"
ErrRefreshTokenExpired == "refresh token expired"

\* The e-mail addresses a login may name: those of the users and one of nobody.
LoginEmails == {Emails[u] : u \in Users} \cup {"eve@example.com"}

\* AuthService.generateAccessToken: the claims, signed with JWT_SECRET
generateAccessToken(u) ==
    [user_id |-> u.id, email |-> u.email, name |-> u.name, is_admin |-> u.is_admin,
     is_blacklisted |-> u.is_blacklisted, exp |-> clock + AccessTokenMinutes,
     signed |-> TRUE]

\* AuthService.generateRefreshToken: the row of table refresh_tokens
generateRefreshToken(userID) ==
    [user_id |-> userID, expires_at |-> clock + RefreshTokenMinutes]

\* a check that never suspends
IsBlacklistedNever(u) == FALSE

\* if user.IsBlacklisted
IsBlacklisted(u) == u.is_blacklisted

\* LoginUser: userRepo.GetUserByEmail(login.Email)
LoginUserGetUser ==
    /\ authCall.pc = "idle"
    /\ Cardinality(tokens) < MaxTokens
    /\ \E email \in LoginEmails, password \in BOOLEAN :
          authCall' =
             IF \E u \in Users : users[u].email = email
                THEN [op |-> "LoginUser", pc |-> "GetUser",
                      user |-> users[CHOOSE u \in Users : users[u].email = email],
                      password |-> password, err |-> ""]
                ELSE [NoAuthCall EXCEPT !.err = ErrInvalidCredentials]
    /\ UNCHANGED <<ledgerVars, users, refreshTokens, tokens, clock, user, valid, pager>>

\* LoginUser from the blacklist check on: bcrypt.CompareHashAndPassword,
\* generateAccessToken, generateRefreshToken.
LoginUserIssue ==
    /\ authCall.pc = "GetUser"
    /\ authCall.op = "LoginUser"
    /\ IF IsBlacklisted(authCall.user)
          THEN /\ authCall' = [NoAuthCall EXCEPT !.err = ErrSuspended]
               /\ UNCHANGED <<tokens, refreshTokens>>
          ELSE IF ~authCall.password
                  THEN /\ authCall' = [NoAuthCall EXCEPT !.err = ErrInvalidCredentials]
                       /\ UNCHANGED <<tokens, refreshTokens>>
                  ELSE /\ tokens' = tokens \cup {generateAccessToken(authCall.user)}
                       /\ refreshTokens' =
                             refreshTokens \cup {generateRefreshToken(authCall.user.id)}
                       /\ authCall' = NoAuthCall
    /\ UNCHANGED <<ledgerVars, users, clock, user, valid, pager>>

\* RefreshToken: refreshTokenRepo.GetByToken, the expiry check, userRepo.GetUserByID.
\* No statement deletes a row of refresh_tokens or of users, so the two reads
\* are one step.
RefreshTokenGetUser ==
    /\ authCall.pc = "idle"
    /\ Cardinality(tokens) < MaxTokens
    /\ \/ authCall' = [NoAuthCall EXCEPT !.err = ErrInvalidRefreshToken]
       \/ \E rt \in refreshTokens :
             authCall' =
                IF clock > rt.expires_at
                   THEN [NoAuthCall EXCEPT !.err = ErrRefreshTokenExpired]
                   ELSE [op |-> "RefreshToken", pc |-> "GetUser",
                         user |-> users[rt.user_id], password |-> FALSE, err |-> ""]
    /\ UNCHANGED <<ledgerVars, users, refreshTokens, tokens, clock, user, valid, pager>>

\* RefreshToken from the blacklist check on.
RefreshTokenIssue ==
    /\ authCall.pc = "GetUser"
    /\ authCall.op = "RefreshToken"
    /\ IF IsBlacklisted(authCall.user)
          THEN /\ authCall' = [NoAuthCall EXCEPT !.err = ErrSuspended]
               /\ UNCHANGED tokens
          ELSE /\ tokens' = tokens \cup {generateAccessToken(authCall.user)}
               /\ authCall' = NoAuthCall
    /\ UNCHANGED <<ledgerVars, users, refreshTokens, clock, user, valid, pager>>

\* UserService.BlacklistUser: UPDATE users SET is_blacklisted = true WHERE id = $3
BlacklistUser(u) ==
    /\ users' = [users EXCEPT ![u].is_blacklisted = TRUE]
    /\ UNCHANGED <<ledgerVars, refreshTokens, tokens, clock, authCall, user, valid, pager>>

\* UserService.RemoveFromBlacklist
RemoveFromBlacklist(u) ==
    /\ users' = [users EXCEPT ![u].is_blacklisted = FALSE]
    /\ UNCHANGED <<ledgerVars, refreshTokens, tokens, clock, authCall, user, valid, pager>>

\* The wall clock moves on by the lifetime of an access token.
Tick ==
    /\ clock < MaxTicks * AccessTokenMinutes
    /\ clock' = clock + AccessTokenMinutes
    /\ UNCHANGED <<ledgerVars, users, refreshTokens, tokens, authCall, user, valid, pager>>

\* ------------------------------------- the banking service: AuthMiddleware
NoClaims == [user_id |-> "", is_admin |-> FALSE, is_blacklisted |-> FALSE]

\* The Authorization headers a request may carry: none, one of another scheme,
\* and "Bearer " followed by a token.  A token is one the client service has
\* signed, one signed with another key, or one signed with JWT_SECRET whose
\* claim is_blacklisted is true.
NoHeader == [scheme |-> "", token |-> NoClaims]
BasicHeader == [scheme |-> "Basic", token |-> NoClaims]
ForgedToken(u) == [generateAccessToken(users[u]) EXCEPT !.signed = FALSE]
SuspendedToken(u) == [generateAccessToken(users[u]) EXCEPT !.is_blacklisted = TRUE]
PresentedTokens ==
    tokens \cup {ForgedToken(u) : u \in Users} \cup {SuspendedToken(u) : u \in Users}
Headers ==
    {NoHeader, BasicHeader} \cup {[scheme |-> "Bearer", token |-> t] : t \in PresentedTokens}

\* a validation that forgets the expiry
parseAndValidateTokenNoExpiry(t) ==
    IF ~t.signed
       THEN [ok |-> FALSE, claims |-> NoClaims]
       ELSE [ok |-> TRUE,
             claims |-> [user_id |-> t.user_id, is_admin |-> t.is_admin,
                         is_blacklisted |-> t.is_blacklisted]]

\* parseAndValidateToken: jwt.Parse checks the signature and the claim exp
parseAndValidateToken(t) ==
    IF ~t.signed \/ clock >= t.exp
       THEN [ok |-> FALSE, claims |-> NoClaims]
       ELSE [ok |-> TRUE,
             claims |-> [user_id |-> t.user_id, is_admin |-> t.is_admin,
                         is_blacklisted |-> t.is_blacklisted]]

Aborted(status, code) == [abort |-> TRUE, status |-> status, code |-> code, claims |-> NoClaims]

\* AuthMiddleware: the response it aborts with, or the claims it hands on
AuthMiddleware(h) ==
    IF h.scheme = "" THEN Aborted(401, "MISSING_TOKEN")
    ELSE IF h.scheme # "Bearer" THEN Aborted(401, "INVALID_TOKEN_FORMAT")
    ELSE LET parsed == parseAndValidateToken(h.token) IN
         IF ~parsed.ok THEN Aborted(401, "INVALID_TOKEN")
         ELSE IF parsed.claims.is_blacklisted THEN Aborted(403, "USER_BLACKLISTED")
         ELSE [abort |-> FALSE, status |-> 0, code |-> "", claims |-> parsed.claims]

Routes == {TransactionTypeDeposit, TransactionTypeWithdrawal, OpGetBalance,
           OpGetTransactions, OpGetTransaction}

AbortedRequest(route, h) ==
    [op |-> route, userID |-> "", amount |-> 0, description |-> "", header |-> h]

AbortedResponse(mw) ==
    [ok |-> FALSE, err |-> mw.code, cause |-> CauseNone, transaction |-> NoTransaction,
     requested |-> 0, available |-> 0, status |-> mw.status]

\* c.JSON(...); c.Abort(): the handler of the route is not called
Abort(p, route, h, mw) ==
    /\ started' = started + 1
    /\ concurrent' = (concurrent \/ \E q \in Procs \ {p} : pc[q] # "idle")
    /\ req' = [req EXCEPT ![p] = AbortedRequest(route, h)]
    /\ result' = [result EXCEPT ![p] = AbortedResponse(mw)]
    /\ pc' = [pc EXCEPT ![p] = "respond"]
    /\ UNCHANGED <<accounts, transactions, now, nextUUID, account, transaction,
                   faults, accepted>>
    /\ UNCHANGED otherVars

\* A request with header h on a route of the group
\* protected.Use(middleware.AuthMiddleware()): the middleware aborts, or calls
\* c.Next() with user_id of the claims in the context.
Protected(p, route, h, handler) ==
    LET mw == AuthMiddleware(h) IN
    IF mw.abort
       THEN Abort(p, route, h, mw)
       ELSE /\ handler
            /\ req'[p].op = route
            /\ req'[p].userID = mw.claims.user_id

\* protected.POST("/transactions/deposit", transactionHandler.Deposit)
ProtectedDeposit(p) ==
    /\ pc[p] = "idle"
    /\ started < MaxProtected
    /\ \E h \in Headers : Protected(p, TransactionTypeDeposit, h, Deposit(p))

\* protected.POST("/transactions/withdraw", transactionHandler.Withdraw)
ProtectedWithdraw(p) ==
    /\ pc[p] = "idle"
    /\ started < MaxProtected
    /\ \E h \in Headers : Protected(p, TransactionTypeWithdrawal, h, Withdraw(p))

\* protected.GET("/account/balance", accountHandler.GetBalance)
ProtectedGetBalance(p) ==
    /\ pc[p] = "idle"
    /\ started < MaxProtected
    /\ \E h \in Headers : Protected(p, OpGetBalance, h, GetBalance(p))

\* protected.GET("/account/transactions", accountHandler.GetTransactions)
ProtectedGetTransactions(p) ==
    /\ pc[p] = "idle"
    /\ started < MaxProtected
    /\ \E h \in Headers : Protected(p, OpGetTransactions, h, GetTransactions(p))

\* protected.GET("/transactions/:id", transactionHandler.GetTransaction)
ProtectedGetTransaction(p) ==
    /\ pc[p] = "idle"
    /\ started < MaxProtected
    /\ \E h \in Headers : Protected(p, OpGetTransaction, h, GetTransaction(p))

\* The client service and the banking service side by side.
NextAuth ==
    \/ LoginUserGetUser
    \/ LoginUserIssue
    \/ RefreshTokenGetUser
    \/ RefreshTokenIssue
    \/ \E u \in Users : BlacklistUser(u)
    \/ \E u \in Users : RemoveFromBlacklist(u)
    \/ Tick
    \/ \E p \in AuthProcs :
          \/ ProtectedDeposit(p)
          \/ ProtectedWithdraw(p)
          \/ ProtectedGetBalance(p)
          \/ ProtectedGetTransactions(p)
          \/ ProtectedGetTransaction(p)
          \/ Respond(p)
          \/ GetOrCreateAccountExists(p)
          \/ GetOrCreateAccountGet(p)
          \/ GetOrCreateAccountCreate(p)
          \/ WithdrawalGetAccount(p)
          \/ BuildTransaction(p)
          \/ CreateTransaction(p)
          \/ UpdateBalance(p)
          \/ StorageFailure(p)
          \/ Return(p)

SpecAuth == Init /\ [][NextAuth]_vars

\* ----------------------------------------- a client reading page by page
\* The histories a pager may find: who deposited and at what time, oldest first.
Histories ==
    UNION {{h \in [1..n -> Users \X (0..MaxTime)] :
               \A i \in 1..n : i < n => h[i][2] <= h[i + 1][2]} : n \in 0..MaxRecords}

\* The id of the account of a user in the tables built from a history.
AccountIDOf(u) == IF u = "u1" THEN 1 ELSE 2

\* Table transactions after the deposits of history h, each of one minor unit,
\* ran one after the other.
TransactionsOf(h) ==
    {LET before == Cardinality({j \in 1..(i - 1) : h[j][1] = h[i][1]})
     IN  [id |-> 2 + i, account_id |-> AccountIDOf(h[i][1]), user_id |-> h[i][1],
          type |-> TransactionTypeDeposit, amount |-> 1, balance_before |-> before,
          balance_after |-> BalanceAfter(TransactionTypeDeposit, before, 1),
          description |-> "memo", created_at |-> h[i][2]] : i \in DOMAIN h}

\* Table accounts after the same deposits.
AccountsOf(h) ==
    {LET mine == {i \in DOMAIN h : h[i][1] = u}
         first == CHOOSE i \in mine : \A j \in mine : i <= j
         last == CHOOSE i \in mine : \A j \in mine : j <= i
     IN  [id |-> AccountIDOf(u), user_id |-> u, balance |-> Cardinality(mine),
          created_at |-> h[first][2], updated_at |-> h[last][2]] :
        u \in {v \in Users : \E i \in DOMAIN h : h[i][1] = v}}

\* A log that no request writes to, and a client about to read the history of a
\* user in pages of limit records.
InitPaging ==
    /\ \E h \in Histories :
        /\ accounts = AccountsOf(h)
        /\ transactions = TransactionsOf(h)
        /\ now = IF h = <<>> THEN 0 ELSE h[Len(h)][2]
        /\ nextUUID = 3 + Len(h)
        /\ accepted = TransactionsOf(h)
        /\ started = Len(h)
    /\ pc = [p \in Procs |-> "idle"]
    /\ req = [p \in Procs |-> NoRequest]
    /\ account = [p \in Procs |-> NoAccount]
    /\ transaction = [p \in Procs |-> NoTransaction]
    /\ result = [p \in Procs |-> NoResult]
    /\ faults = 0
    /\ concurrent = FALSE
    /\ InitClient
    /\ user = NoUser
    /\ valid = <<>>
    /\ pager \in [userID : Users, limit : 1..MaxPageSize, offset : {0},
                  rows : {<<>>}, done : {FALSE}]

\* The client asks for the next page, GetTransactionsByUserID(userID, limit,
\* offset), appends it to what it has and moves the offset on by limit; an
\* empty page ends the reading.
ListNextPage ==
    /\ ~pager.done
    /\ \E page \in GetTransactionsByUserID(pager.userID, EffectiveLimit(pager.limit),
                                           EffectiveOffset(pager.offset)) :
          pager' = IF page = <<>>
                      THEN [pager EXCEPT !.done = TRUE]
                      ELSE [pager EXCEPT !.rows = @ \o page,
                                         !.offset = @ + pager.limit]
    /\ UNCHANGED <<ledgerVars, authVars, user, valid>>

NextPaging == ListNextPage

SpecPaging == InitPaging /\ [][NextPaging]_vars

\* ------------------------------------------------------------ properties
AllReturned == \A p \in Procs : pc[p] = "idle"

RecordsOf(accountID) == {t \in transactions : t.account_id = accountID}

AcceptedOf(accountID, type) ==
    {t \in accepted : t.account_id = accountID /\ t.type = type}

RECURSIVE SumAmounts(_)
SumAmounts(S) ==
    IF S = {} THEN 0
    ELSE LET t == CHOOSE x \in S : TRUE IN t.amount + SumAmounts(S \ {t})

\* The balance the accepted operations of an account add up to, from 0.
NetAccepted(accountID) ==
    SumAmounts(AcceptedOf(accountID, TransactionTypeDeposit))
        - SumAmounts(AcceptedOf(accountID, TransactionTypeWithdrawal))

Conserved(a) ==
    /\ a.balance = NetAccepted(a.id)
    /\ Cardinality(RecordsOf(a.id)) =
          Cardinality({t \in accepted : t.account_id = a.id})
    /\ Cardinality({t.id : t \in RecordsOf(a.id)}) = Cardinality(RecordsOf(a.id))

\* C1: once all calls have returned (none hit a storage failure), in every
\* interleaving, each account's balance is the sum of its accepted deposits minus
\* the sum of its accepted withdrawals, and its log holds exactly one record with
\* its own id per accepted call: no update is lost.
C1_NoLostUpdate ==
    (AllReturned /\ faults = 0) => \A a \in accounts : Conserved(a)

C3_NonNegative == \A a \in accounts : a.balance >= 0

\* C3 witness: two withdrawals that read the same balance and together exceed it
\* have both been written and have both returned.
C3_Witness ==
    /\ AllReturned
    /\ \E t1, t2 \in accepted :
        /\ t1.id # t2.id /\ t1.account_id = t2.account_id
        /\ t1.type = TransactionTypeWithdrawal /\ t2.type = TransactionTypeWithdrawal
        /\ t1.balance_before = t2.balance_before
        /\ t1.amount + t2.amount > t1.balance_before

\* C4: when CreateTransaction succeeded and UpdateBalance then failed, the call
\* returns an error and the log holds no record of that operation.
C4_AllOrNothing ==
    \A p \in Procs :
        (pc[p] = "return" /\ result[p].err = ErrUpdateBalance) =>
            /\ ~result[p].ok
            /\ \A t \in transactions : t.id # transaction[p].id

\* C5: in every reachable state an account's stored balance is the balance_after
\* of its most recent record (by created_at), or 0 when it has no record.
C5_BalanceIsLatestRecord ==
    \A a \in accounts :
        IF RecordsOf(a.id) = {}
           THEN a.balance = 0
           ELSE \E t \in RecordsOf(a.id) :
                   /\ \A s \in RecordsOf(a.id) : s.created_at <= t.created_at
                   /\ t.balance_after = a.balance

\* The records S can be listed in created_at order as a chain of snapshots from 0.
IsChain(S) ==
    LET n == Cardinality(S)
    IN  \E f \in [1..n -> S] :
           /\ \A i, j \in 1..n : i # j => f[i] # f[j]
           /\ \A i \in 1..n :
                 /\ i = 1 => f[i].balance_before = 0
                 /\ i < n => /\ f[i].created_at <= f[i + 1].created_at
                             /\ f[i].balance_after = f[i + 1].balance_before

\* C6: for every account, its records ordered by created_at form an unbroken
\* chain: the first starts at 0 and each balance_after is the balance_before of
\* the next.
C6_SnapshotChain == \A a \in accounts : IsChain(RecordsOf(a.id))

\* C7: when ProcessDeposit returns a transaction, the account's stored balance at
\* that moment is the transaction's balance_after.
C7_ReturnedBalanceIsStored ==
    \A p \in Procs :
        (pc[p] = "return" /\ result[p].ok
            /\ result[p].transaction.type = TransactionTypeDeposit) =>
            \A a \in accounts :
                a.id = result[p].transaction.account_id =>
                    a.balance = result[p].transaction.balance_after

\* C8: in every reachable state there is at most one account row per user id.
C8_OneAccountPerUser ==
    \A a1, a2 \in accounts : a1.user_id = a2.user_id => a1 = a2

\* C8 witness: two first deposits of one user both saw no account; one has
\* inserted the row and the other is about to run, or has run, its INSERT.
C8_Witness ==
    \E p \in Procs :
        /\ \/ pc[p] = "CreateAccount"
           \/ (pc[p] = "return" /\ result[p].cause = CauseUniqueViolation)
        /\ \E a \in accounts : a.user_id = req[p].userID

\* C9: a first deposit that loses the race to create the account re-fetches the
\* winner's row and proceeds: no call returns the uniqueness conflict.
C9_ConflictNotSurfaced ==
    \A p \in Procs : pc[p] = "return" => result[p].cause # CauseUniqueViolation

\* C10: a withdrawal that reads a balance below its amount returns the
\* insufficient-funds error with the requested amount and the balance read, and
\* neither that step nor the return changes the accounts or the log.
C10_RejectedWithdrawal ==
    [][\A p \in Procs :
        /\ (/\ pc[p] = "GetAccountByUserID"
            /\ req[p].op = TransactionTypeWithdrawal
            /\ pc'[p] # pc[p]
            /\ result'[p].cause # CauseStorage
            /\ AccountExists(req[p].userID)
            /\ AccountRow(req[p].userID).balance < req[p].amount)
           => /\ pc'[p] = "return"
              /\ result'[p] = InsufficientFundsError(
                                 req[p].amount, AccountRow(req[p].userID).balance)
              /\ accounts' = accounts
              /\ transactions' = transactions
        /\ (/\ result[p].err = ErrInsufficientFunds
            /\ pc'[p] # pc[p])
           => /\ pc'[p] = "idle"
              /\ accounts' = accounts
              /\ transactions' = transactions
              /\ accepted' = accepted]_vars

\* C10 witness: a withdrawal of more than the balance is about to return its
\* rejection.
C10_Witness ==
    \E p \in Procs :
        /\ pc[p] = "return"
        /\ result[p].err = ErrInsufficientFunds
        /\ result[p].requested > result[p].available
        /\ result[p].available > 0

LedgerOps == {TransactionTypeDeposit, TransactionTypeWithdrawal}

TablesUnchanged == accounts' = accounts /\ transactions' = transactions

\* C11: a call of ProcessDeposit or ProcessWithdrawal with amount <= 0 fails at
\* once with the amount error, before any statement: it creates no account,
\* writes no record, changes no balance and draws no id, in any state and for
\* every such call.
C11_InvalidAmountRejected ==
    [][\A p \in Procs :
        /\ (/\ pc[p] = "idle" /\ pc'[p] # "idle"
            /\ req'[p].op \in LedgerOps
            /\ req'[p].amount <= 0)
           => /\ pc'[p] = "return"
              /\ ~result'[p].ok
              /\ result'[p].err = (IF req'[p].op = TransactionTypeDeposit
                                      THEN ErrDepositAmount ELSE ErrWithdrawalAmount)
              /\ account'[p] = NoAccount /\ transaction'[p] = NoTransaction
              /\ nextUUID' = nextUUID
              /\ TablesUnchanged
        /\ (/\ req[p].op \in LedgerOps
            /\ req[p].amount <= 0
            /\ pc'[p] # pc[p])
           => /\ pc'[p] = "idle"
              /\ accepted' = accepted
              /\ TablesUnchanged]_vars

\* C11 witness: with an account already there, a second call with amount <= 0 is
\* about to return the amount error.
C11_Witness ==
    /\ accounts # {}
    /\ started >= 2
    /\ \E p \in Procs :
        /\ pc[p] = "return"
        /\ req[p].amount <= 0
        /\ result[p].err \in {ErrDepositAmount, ErrWithdrawalAmount}

\* C12: a withdrawal for a user without an account fails with account not found
\* and creates neither an account nor a record; the deposit that creates the
\* account creates it with balance 0, builds its transaction from that row
\* (balance_before 0) and inserts exactly that one record.
C12_FirstUse ==
    [][\A p \in Procs :
        /\ (/\ pc[p] = "GetAccountByUserID"
            /\ req[p].op = TransactionTypeWithdrawal
            /\ ~(\E a \in accounts : a.user_id = req[p].userID)
            /\ pc'[p] # pc[p]
            /\ result'[p].cause # CauseStorage)
           => /\ pc'[p] = "return"
              /\ ~result'[p].ok
              /\ result'[p].err = ErrGetAccount
              /\ result'[p].cause = CauseNoRows
              /\ TablesUnchanged
        /\ (result[p].cause = CauseNoRows /\ pc'[p] # pc[p])
           => (pc'[p] = "idle" /\ TablesUnchanged /\ accepted' = accepted)
        /\ (pc[p] = "CreateAccount" /\ pc'[p] = "NewTransaction")
           => /\ account'[p].balance = 0
              /\ account'[p].user_id = req[p].userID
              /\ account'[p] \notin accounts
              /\ accounts' = accounts \cup {account'[p]}
              /\ transactions' = transactions
        /\ (pc[p] = "NewTransaction" /\ pc'[p] # pc[p])
           => /\ transaction'[p].balance_before = account[p].balance
              /\ transaction'[p].account_id = account[p].id
              /\ transaction'[p].user_id = req[p].userID
              /\ TablesUnchanged
        /\ (pc[p] = "CreateTransaction" /\ pc'[p] = "UpdateBalance")
           => /\ transaction[p] \notin transactions
              /\ transactions' = transactions \cup {transaction[p]}
              /\ accounts' = accounts]_vars

\* C12 witness: a withdrawal of a user without an account has failed with account
\* not found, and a deposit of the same user has since created the account and
\* inserted its one record, with balance_before 0.
C12_Witness ==
    \E p, q \in Procs :
        /\ pc[p] = "return"
        /\ req[p].op = TransactionTypeWithdrawal
        /\ result[p].cause = CauseNoRows
        /\ pc[q] = "UpdateBalance"
        /\ req[q].userID = req[p].userID
        /\ account[q].balance = 0
        /\ {t \in transactions : t.user_id = req[q].userID} = {transaction[q]}
        /\ transaction[q].balance_before = 0

\* C13: ProcessDeposit and ProcessWithdrawal return a transaction only from the
\* step in which UpdateBalance succeeds, after CreateTransaction has inserted the
\* record; a call that fails in either statement, or anywhere else, returns an
\* error and no transaction.
C13_SuccessAfterBothWrites ==
    [][\A p \in Procs :
        /\ (result'[p].ok /\ ~result[p].ok /\ req'[p].op \in LedgerOps)
           => /\ pc[p] = "UpdateBalance"
              /\ transaction[p] \in transactions
              /\ result'[p].transaction = transaction[p]
              /\ \E a \in accounts' :
                    /\ a.id = transaction[p].account_id
                    /\ a.balance = transaction[p].balance_after
        /\ (pc'[p] = "return" /\ pc[p] # "return" /\ ~result'[p].ok)
           => /\ result'[p].transaction = NoTransaction
              /\ result'[p].err # ""
        /\ (/\ pc[p] \in {"CreateTransaction", "UpdateBalance"}
            /\ pc'[p] = "return"
            /\ faults' # faults)
           => /\ ~result'[p].ok
              /\ result'[p].err \in {ErrSaveTransaction, ErrUpdateBalance}]_vars

\* C13 witness: one call is returning its transaction while another returns the
\* error of a failed CreateTransaction or UpdateBalance.
C13_Witness ==
    \E p, q \in Procs :
        /\ pc[p] = "return" /\ result[p].ok
        /\ pc[q] = "return"
        /\ result[q].err \in {ErrSaveTransaction, ErrUpdateBalance}

\* The step in which process p answers a query of kind op.
QueryStep(p, op) == pc[p] = "idle" /\ pc'[p] = "respond" /\ req'[p].op = op

\* C14: the transaction log is append-only: no step of a deposit, a withdrawal,
\* a balance read, a listing or a get-by-id removes a record or changes a field
\* of one; every record of the log is in the log after the step, as it was.
C14_AppendOnly == [][\A t \in transactions : t \in transactions']_vars

\* C14 witness: a listing has returned a record of a log that holds two records.
C14_Witness ==
    /\ Cardinality(transactions) >= 2
    /\ \E p \in Procs :
        /\ pc[p] = "respond"
        /\ req[p].op = OpGetTransactions
        /\ result[p].ok
        /\ Len(result[p].rows) >= 1

\* C15: every withdrawal that ProcessWithdrawal rejects for insufficient funds,
\* whatever the balance, is answered 400 INSUFFICIENT_FUNDS with details that
\* carry requested_amount and current_balance.
C15_InsufficientFundsResponse ==
    \A p \in Procs :
        (/\ pc[p] = "return"
         /\ req[p].op = TransactionTypeWithdrawal
         /\ result[p].err = ErrInsufficientFunds)
        => LET response == WithdrawResponse(req[p], result[p])
           IN  /\ response.status = 400
               /\ response.code = "INSUFFICIENT_FUNDS"
               /\ response.details = {<<"requested_amount", result[p].requested>>,
                                      <<"current_balance", result[p].available>>}

\* C16: GET /transactions/:id answers 200 only with the record of that id whose
\* user_id is the principal; an id of no record answers 404
\* TRANSACTION_NOT_FOUND; an id whose record the lookup returns and that
\* belongs to another user answers 403 ACCESS_DENIED and carries no record (a
\* lookup that fails in the database answers 404 for every id); the request
\* changes no table.
C16_OwnTransactionOnly ==
    [][\A p \in Procs :
        QueryStep(p, OpGetTransaction)
        => LET r == req'[p]
               response == GetTransactionResponse(r.userID, result'[p])
               found == {t \in transactions : t.id = r.id}
           IN  /\ TablesUnchanged
               /\ response.status \in {200, 403, 404}
               /\ response.status = 200
                  => /\ response.transaction \in found
                     /\ response.transaction.user_id = r.userID
               /\ response.status # 200 => response.transaction = NoTransaction
               /\ found = {}
                  => response.status = 404 /\ response.code = "TRANSACTION_NOT_FOUND"
               /\ result'[p].cause = CauseStorage
                  => response.status = 404 /\ response.code = "TRANSACTION_NOT_FOUND"
               /\ (result'[p].cause # CauseStorage
                   /\ \E t \in found : t.user_id # r.userID)
                  => response.status = 403 /\ response.code = "ACCESS_DENIED"
               /\ (result'[p].cause # CauseStorage
                   /\ \E t \in found : t.user_id = r.userID)
                  => response.status = 200]_vars

\* C16 witness: a principal has asked for the record of another user and is
\* answered 403.
C16_Witness ==
    \E p \in Procs :
        /\ pc[p] = "respond"
        /\ req[p].op = OpGetTransaction
        /\ result[p].ok
        /\ result[p].transaction.user_id # req[p].userID
        /\ GetTransactionResponse(req[p].userID, result[p]).status = 403

\* C17: a listing uses limit 50 when the limit is absent or <= 0 and offset 0
\* when the offset is absent or negative, and returns the records of the user at
\* positions [offset, offset+limit) of the user's records in descending order of
\* created_at: the page has min(limit, n - offset) records of the user, no
\* record twice, newest first; offset records not on the page are at least as new
\* as every record of the page, and all others are at most as old.
C17_ListPage ==
    [][\A p \in Procs :
        (QueryStep(p, OpGetTransactions) /\ result'[p].ok)
        => LET r == req'[p]
               rows == result'[p].rows
               limit == IF r.limit <= 0 THEN 50 ELSE r.limit
               offset == IF r.offset < 0 THEN 0 ELSE r.offset
               history == {t \in transactions : t.user_id = r.userID}
               n == Cardinality(history)
               len == IF offset >= n THEN 0
                      ELSE IF n - offset < limit THEN n - offset ELSE limit
               page == {rows[i] : i \in 1..Len(rows)}
               response == GetTransactionsResponse(r, result'[p])
           IN  /\ Len(rows) = len
               /\ page \subseteq history
               /\ Cardinality(page) = len
               /\ \A i \in 1..Len(rows) :
                     i < Len(rows) => rows[i].created_at >= rows[i + 1].created_at
               /\ len > 0
                  => \E before \in SUBSET (history \ page) :
                        /\ Cardinality(before) = offset
                        /\ \A b \in before, t \in page : b.created_at >= t.created_at
                        /\ \A a \in history \ (page \cup before) :
                              /\ \A t \in page : t.created_at >= a.created_at
                              /\ \A b \in before : b.created_at >= a.created_at
               /\ response.status = 200
               /\ response.transactions = rows
               /\ response.limit = limit /\ response.offset = offset
               /\ response.count = len
               /\ TablesUnchanged]_vars

\* C17 witness: of a user's two records, a listing with limit 1 and offset 1 has
\* returned one.
C17_Witness ==
    \E p \in Procs :
        /\ pc[p] = "respond"
        /\ req[p].op = OpGetTransactions
        /\ req[p].limit = 1 /\ req[p].offset = 1
        /\ result[p].ok
        /\ Len(result[p].rows) = 1
        /\ Cardinality({t \in transactions : t.user_id = req[p].userID}) = 2

\* C17 witness of the defaults: a listing with limit <= 0 and a negative offset
\* has returned both records of the user.
C17_WitnessDefaults ==
    \E p \in Procs :
        /\ pc[p] = "respond"
        /\ req[p].op = OpGetTransactions
        /\ req[p].limit <= 0 /\ req[p].offset < 0
        /\ result[p].ok
        /\ Len(result[p].rows) = 2

\* C18: a balance read returns the balance stored in the account row of the
\* user, or fails with account not found when the user has no account; the
\* request and its response change neither the accounts nor the log, and no
\* account is created.
C18_BalanceReadOnly ==
    [][\A p \in Procs :
        /\ QueryStep(p, OpGetBalance)
           => LET u == req'[p].userID
                  response == GetBalanceResponse(result'[p])
              IN  /\ TablesUnchanged
                  /\ nextUUID' = nextUUID
                  /\ result'[p].ok
                     => /\ \E a \in accounts :
                              a.user_id = u /\ a.balance = result'[p].balance
                        /\ response.status = 200
                        /\ response.balance = result'[p].balance
                  /\ (\A a \in accounts : a.user_id # u)
                     => /\ ~result'[p].ok
                        /\ result'[p].err = ErrGetAccount
                        /\ response.status = 404
                        /\ response.code = "ACCOUNT_NOT_FOUND"
                  /\ ((\E a \in accounts : a.user_id = u)
                      /\ result'[p].cause # CauseStorage)
                     => result'[p].ok
        /\ (req[p].op = OpGetBalance /\ pc'[p] # pc[p])
           => (pc'[p] = "idle" /\ TablesUnchanged /\ nextUUID' = nextUUID)]_vars

\* C18 witness: a balance read has returned a positive stored balance while
\* another has failed for a user without an account.
C18_Witness ==
    \E p, q \in Procs :
        /\ pc[p] = "respond" /\ req[p].op = OpGetBalance
        /\ result[p].ok /\ result[p].balance > 0
        /\ pc[q] = "respond" /\ req[q].op = OpGetBalance
        /\ result[q].cause = CauseNoRows
        /\ ~AccountExists(req[q].userID)

\* The error kind of the withdrawal request of p that is about to be answered.
WithdrawErrorKind(p) ==
    IF req[p].op # TransactionTypeWithdrawal THEN "none"
    ELSE IF pc[p] = "respond" THEN "invalid amount"
    ELSE IF pc[p] # "return" \/ result[p].ok THEN "none"
    ELSE IF result[p].err = ErrWithdrawalAmount THEN "invalid amount"
    ELSE IF result[p].cause = CauseStorage THEN "storage failure"
    ELSE IF result[p].cause = CauseNoRows THEN "account not found"
    ELSE IF result[p].err = ErrInsufficientFunds THEN "insufficient funds"
    ELSE "none"

\* The response of POST /transactions/withdraw to the request of p.
WithdrawAnswer(p) ==
    IF pc[p] = "respond" THEN ValidationErrorResponse
    ELSE WithdrawResponse(req[p], result[p])

\* C19: two withdrawals that fail with different error kinds (invalid amount,
\* account not found, insufficient funds, storage failure) are answered with
\* different pairs of HTTP status and code.
C19_DistinctErrorResponses ==
    \A p, q \in Procs :
        (/\ WithdrawErrorKind(p) # "none"
         /\ WithdrawErrorKind(q) # "none"
         /\ WithdrawErrorKind(p) # WithdrawErrorKind(q))
        => <<WithdrawAnswer(p).status, WithdrawAnswer(p).code>>
              # <<WithdrawAnswer(q).status, WithdrawAnswer(q).code>>

\* The response of POST /transactions/deposit to the request of p.
DepositAnswer(p) ==
    IF pc[p] = "respond" THEN ValidationErrorResponse
    ELSE DepositResponse(result[p])

\* C20: a deposit request with amount <= 0 is answered 400 VALIDATION_ERROR and
\* never enters ProcessDeposit: no statement runs, no account is created and no
\* table changes; a deposit that ProcessDeposit accepted is answered 201 with
\* its transaction, and every error of ProcessDeposit 500 DEPOSIT_FAILED.
C20_DepositResponses ==
    [][\A p \in Procs :
        /\ (pc[p] = "idle" /\ pc'[p] # "idle"
            /\ req'[p].op = TransactionTypeDeposit /\ req'[p].amount <= 0)
           => /\ pc'[p] = "respond"
              /\ result'[p] = NoResult
              /\ account'[p] = NoAccount /\ transaction'[p] = NoTransaction
              /\ TablesUnchanged /\ nextUUID' = nextUUID /\ faults' = faults
        /\ (req[p].op = TransactionTypeDeposit /\ req[p].amount <= 0
            /\ pc'[p] # pc[p])
           => /\ pc[p] = "respond" /\ pc'[p] = "idle"
              /\ DepositAnswer(p).status = 400
              /\ DepositAnswer(p).code = "VALIDATION_ERROR"
              /\ TablesUnchanged /\ accepted' = accepted
        /\ (req[p].op = TransactionTypeDeposit /\ pc[p] = "return"
            /\ pc'[p] # pc[p])
           => /\ req[p].amount > 0
              /\ result[p].ok
                 => /\ DepositAnswer(p).status = 201
                    /\ DepositAnswer(p).transaction = transaction[p]
                    /\ transaction[p] \in transactions
                    /\ transaction[p].amount = req[p].amount
              /\ ~result[p].ok
                 => /\ DepositAnswer(p).status = 500
                    /\ DepositAnswer(p).code = "DEPOSIT_FAILED"
                    /\ DepositAnswer(p).transaction = NoTransaction]_vars

\* C20 witness: one deposit request with amount <= 0 is answered by the binding
\* while the handler of another is about to answer 201, with an account there.
C20_Witness ==
    \E p, q \in Procs :
        /\ pc[p] = "respond"
        /\ req[p].op = TransactionTypeDeposit /\ req[p].amount <= 0
        /\ pc[q] = "return"
        /\ req[q].op = TransactionTypeDeposit /\ result[q].ok
        /\ DepositAnswer(q).status = 201

\* C20 witness of the error branch: ProcessDeposit has failed and the handler is
\* about to answer 500.
C20_WitnessFailed ==
    \E p \in Procs :
        /\ pc[p] = "return"
        /\ req[p].op = TransactionTypeDeposit /\ ~result[p].ok
        /\ DepositAnswer(p).code = "DEPOSIT_FAILED"

\* C21: IsValid returns true exactly when the user is not blacklisted and its id
\* is not the nil UUID: of the four combinations of the two fields only
\* (not blacklisted, id set) is valid, whatever the other fields hold.
C21_IsValid ==
    valid # <<>>
    => /\ (user.is_blacklisted /\ user.id = UUIDNil) => valid[1] = FALSE
       /\ (user.is_blacklisted /\ user.id # UUIDNil) => valid[1] = FALSE
       /\ (~user.is_blacklisted /\ user.id = UUIDNil) => valid[1] = FALSE
       /\ (~user.is_blacklisted /\ user.id # UUIDNil) => valid[1] = TRUE

\* C21 witness: IsValid has returned false for a user that is not blacklisted
\* and has the nil id.
C21_Witness ==
    /\ valid = <<FALSE>>
    /\ ~user.is_blacklisted
    /\ user.id = UUIDNil

\* C22: in every interleaving of withdrawals and deposits on an account that
\* starts with balance 0, once the calls have returned the amounts of the
\* accepted withdrawals add up to no more than the amounts of the accepted
\* deposits.
C22_NoOverdraft ==
    AllReturned
    => \A a \in accounts :
          SumAmounts(AcceptedOf(a.id, TransactionTypeWithdrawal))
             <= SumAmounts(AcceptedOf(a.id, TransactionTypeDeposit))

C24_AccountLifecycle ==
    [][/\ \A a \in accounts :
             \E b \in accounts' : b.id = a.id /\ b.user_id = a.user_id
       /\ \A b \in accounts' :
             (\A a \in accounts : a.user_id # b.user_id)
             => \E p \in Procs :
                   /\ pc[p] = "CreateAccount" /\ pc'[p] = "NewTransaction"
                   /\ req[p].op = TransactionTypeDeposit
                   /\ req[p].userID = b.user_id
                   /\ req[p].amount > 0
       /\ \A p \in Procs :
             (/\ req'[p].op = TransactionTypeDeposit
              /\ req'[p].amount > 0
              /\ \/ pc'[p] \in {"NewTransaction", "CreateTransaction", "UpdateBalance"}
                 \/ pc'[p] = "return" /\ result'[p].cause # CauseStorage)
             => \E b \in accounts' : b.user_id = req'[p].userID
       /\ \A p \in Procs :
             (req[p].op = TransactionTypeWithdrawal /\ pc'[p] # pc[p])
             => accounts' = accounts
                \/ (pc[p] = "UpdateBalance"
                    /\ {a.user_id : a \in accounts'} = {a.user_id : a \in accounts})]_vars

\* C24 witness: the user's first deposit has made the account present and a
\* balance read of that user is answered from it.
C24_Witness ==
    \E p, q \in Procs :
        /\ pc[p] = "return" /\ req[p].op = TransactionTypeDeposit /\ result[p].ok
        /\ pc[q] = "respond" /\ req[q].op = OpGetBalance /\ result[q].ok
        /\ req[q].userID = req[p].userID
        /\ Cardinality(accounts) = 1

\* C25: a withdrawal whose amount equals the balance it reads is not rejected:
\* its transaction has balance_after 0, its UpdateBalance sets the balance to 0,
\* the call returns the transaction, and the account row stays.
C25_WithdrawWholeBalance ==
    [][\A p \in Procs :
        /\ (/\ pc[p] = "GetAccountByUserID"
            /\ req[p].op = TransactionTypeWithdrawal
            /\ pc'[p] # pc[p]
            /\ result'[p].cause # CauseStorage
            /\ \E a \in accounts :
                  a.user_id = req[p].userID /\ a.balance = req[p].amount)
           => /\ pc'[p] = "NewTransaction"
              /\ result'[p] = NoResult
              /\ account'[p].balance = req[p].amount
        /\ (/\ pc[p] = "NewTransaction"
            /\ req[p].op = TransactionTypeWithdrawal
            /\ account[p].balance = req[p].amount
            /\ pc'[p] # pc[p])
           => /\ transaction'[p].balance_before = req[p].amount
              /\ transaction'[p].balance_after = 0
        /\ (/\ pc[p] = "UpdateBalance"
            /\ req[p].op = TransactionTypeWithdrawal
            /\ account[p].balance = req[p].amount
            /\ pc'[p] # pc[p]
            /\ result'[p].cause # CauseStorage)
           => /\ result'[p].ok
              /\ result'[p].transaction.balance_after = 0
              /\ result'[p].transaction \in transactions
              /\ \E a \in accounts' :
                    /\ a.id = account[p].id
                    /\ a.user_id = req[p].userID
                    /\ a.balance = 0]_vars

\* C25 witness: a withdrawal of the whole positive balance is returning its
\* transaction, and the account is there with balance 0.
C25_Witness ==
    \E p \in Procs :
        /\ pc[p] = "return"
        /\ req[p].op = TransactionTypeWithdrawal
        /\ result[p].ok
        /\ result[p].transaction.balance_before = req[p].amount
        /\ result[p].transaction.balance_after = 0
        /\ \E a \in accounts : a.id = account[p].id /\ a.balance = 0

\* The user on whose behalf process p takes the step.
ActingUser(p) == IF pc[p] = "idle" THEN req'[p].userID ELSE req[p].userID

\* C30: a step of a deposit or a withdrawal of user A, whether the call succeeds
\* or fails, leaves every account row and every record of every other user as
\* it was, inserts only an account row of A and only records with A's user id,
\* and changes of A's account row nothing but balance and updated_at.
C30_PerUserIsolation ==
    [][\A p \in Procs :
        pc'[p] # pc[p]
        => /\ \A a \in accounts :
                 /\ \E b \in accounts' :
                       /\ b.id = a.id /\ b.user_id = a.user_id
                       /\ b.created_at = a.created_at
                 /\ a.user_id # ActingUser(p) => a \in accounts'
           /\ \A b \in accounts' :
                 b.user_id # ActingUser(p) => b \in accounts
           /\ \A t \in transactions : t \in transactions'
           /\ \A t \in transactions' \ transactions : t.user_id = ActingUser(p)
           /\ Cardinality(accounts') <= Cardinality(accounts) + 1]_vars

\* C30 witness: both users hold an account with a positive balance and a record,
\* and a call of one of them is returning an error.
C30_Witness ==
    \E p \in Procs, a, b \in accounts :
        /\ a.user_id # b.user_id
        /\ a.balance > 0 /\ b.balance > 0
        /\ \E t, w \in transactions : t.user_id = a.user_id /\ w.user_id = b.user_id
        /\ pc[p] = "return" /\ ~result[p].ok
        /\ req[p].userID = a.user_id

\* C26: with no write between the calls, the pages of a user's history read at
\* offsets 0, k, 2k, ... until an empty page, put one after the other, hold
\* every record of the user exactly once, newest first, also when records have
\* the same created_at.
C26_PaginationRestartable ==
    (pager.done /\ pager # NoPager)
    => LET rows == pager.rows
           history == {t \in transactions : t.user_id = pager.userID}
       IN  /\ Len(rows) = Cardinality(history)
           /\ {rows[i] : i \in 1..Len(rows)} = history
           /\ \A i \in 1..Len(rows) :
                 i < Len(rows) => rows[i].created_at >= rows[i + 1].created_at

\* C27: once BlacklistUser(u) has completed, the banking service admits no
\* deposit or withdrawal request of u to its handler and engine, whatever
\* token the request bears: a step that takes a request with a valid amount
\* from the router into ProcessDeposit or ProcessWithdrawal is a step for a
\* user whose row in table users is not blacklisted.
C27_BlacklistEnforced ==
    [][\A p \in AuthProcs :
          (pc[p] = "idle" /\ pc'[p] \in {"AccountExists", "GetAccountByUserID"})
             => ~users[req'[p].userID].is_blacklisted]_vars

\* C28: LoginUser and RefreshToken that have read a user row with
\* is_blacklisted true fail with "account has been suspended" and issue
\* nothing; a step that issues an access token issues it for the row read,
\* which is not blacklisted; and every access token issued carries
\* is_blacklisted = false.
C28_NoTokenForSuspended ==
    [][/\ (authCall.pc = "GetUser" /\ authCall' # authCall /\ authCall.user.is_blacklisted)
             => /\ authCall'.err = ErrSuspended
                /\ authCall'.pc = "idle"
                /\ tokens' = tokens
                /\ refreshTokens' = refreshTokens
       /\ tokens' # tokens
             => /\ authCall.pc = "GetUser"
                /\ ~authCall.user.is_blacklisted
                /\ authCall'.err = ""
                /\ \E t \in tokens' : /\ tokens' = tokens \cup {t}
                                      /\ t.user_id = authCall.user.id
                                      /\ t.exp = clock + AccessTokenMinutes
       /\ \A t \in tokens' : ~t.is_blacklisted]_vars

\* A call for a suspended user has failed while an access token issued
\* earlier exists.
C28_Witness ==
    /\ authCall.err = ErrSuspended
    /\ \E t \in tokens : users[t.user_id].is_blacklisted

\* C29: a request on a protected route whose header is missing, is not a
\* Bearer header, or bears a token that is invalid or expired is answered 401,
\* one whose token carries is_blacklisted true is answered 403
\* USER_BLACKLISTED; in both cases the handler of the route is not called and
\* the tables, the id counter and the goroutine's locals are as before.  A
\* handler that is called has the user of an unexpired, signed token whose
\* claim is_blacklisted is false.
C29_RejectedBeforeHandler ==
    [][\A p \in AuthProcs :
          (pc[p] = "idle" /\ pc'[p] # "idle")
             => IF "header" \in DOMAIN req'[p]
                   THEN LET h == req'[p].header
                            answer == <<result'[p].status, result'[p].err>>
                        IN  /\ pc'[p] = "respond"
                            /\ req'[p].op \in Routes
                            /\ accounts' = accounts
                            /\ transactions' = transactions
                            /\ nextUUID' = nextUUID
                            /\ account' = account
                            /\ transaction' = transaction
                            /\ accepted' = accepted
                            /\ ~result'[p].ok
                            /\ answer =
                                 IF h.scheme = "" THEN <<401, "MISSING_TOKEN">>
                                 ELSE IF h.scheme # "Bearer"
                                         THEN <<401, "INVALID_TOKEN_FORMAT">>
                                 ELSE IF ~h.token.signed \/ clock >= h.token.exp
                                         THEN <<401, "INVALID_TOKEN">>
                                 ELSE <<403, "USER_BLACKLISTED">>
                            /\ (h.scheme = "Bearer" /\ h.token.signed /\ clock < h.token.exp)
                                   => h.token.is_blacklisted
                   ELSE \E t \in PresentedTokens :
                           /\ t.signed
                           /\ clock < t.exp
                           /\ ~t.is_blacklisted
                           /\ t.user_id = req'[p].userID]_vars

\* A token the client service issued has expired and a request bearing it is
\* answered 401 INVALID_TOKEN while its user holds an account with a balance.
C29_Witness ==
    \E p \in AuthProcs :
        /\ pc[p] = "respond"
        /\ "header" \in DOMAIN req[p]
        /\ req[p].header.token \in tokens
        /\ result[p].status = 401
        /\ result[p].err = "INVALID_TOKEN"
        /\ \E a \in accounts : a.user_id = req[p].header.token.user_id /\ a.balance > 0

====
